---- MODULE Spec2Model ----
(***************************************************************************)
(* A model of the two OsdagLatexEnv classes of this repository:            *)
(*   src/osdag-latex-env/__main__.py   (variant "osdag-latex-env")         *)
(*   src/osdag_latex_env/__main__.py   (variant "osdag_latex_env")         *)
(*                                                                         *)
(* One Python process holds one instance of each class, the file system   *)
(* they scanned, the process environment (os.environ) and the child        *)
(* processes it spawned.                                                   *)
(*                                                                         *)
(* Text is modelled as a sequence of pieces.  A file name is a sequence    *)
(* of chunks ("PdfLaTeX", ".", "exe"); a chunk stands for a run of         *)
(* characters without a dot, "." for the dot itself.  A path is a          *)
(* sequence of names.  str(path) is the sequence of pieces with the        *)
(* separators written out.                                                 *)
(***************************************************************************)
EXTENDS Naturals, Sequences, FiniteSets, TLC

VARIABLES
    system,     \* platform.system().lower() of the process
    fs,         \* the file system: a set of [path, kind] entries
    fs0,        \* the file system as it was when the instances were constructed
    inst,       \* Inst -> the constructed OsdagLatexEnv object (or Raised)
    inst0,      \* inst right after construction
    env,        \* os.environ: [TEXINPUTS, TEXMFHOME]
    env0,       \* os.environ at process start
    ncalls,     \* configure_tex calls begun so far
    pc,         \* "idle", or "waiting" inside subprocess.run
    call,       \* the method call in progress or last completed
    ret,        \* how the last call ended: a return value or a raised error
    attempts,   \* argv of every subprocess.run made by the current call
    children,   \* the live child processes
    changes,    \* file-system changes made after construction
    tpc,        \* Threads -> position inside configure_tex (concurrent runs)
    tself,      \* Threads -> the instance the thread calls configure_tex on
    tread       \* Threads -> the value the thread last read from os.environ

vars == <<system, fs, fs0, inst, inst0, env, env0, ncalls, pc, call, ret,
          attempts, children, changes, tpc, tself, tread>>

---------------------------------------------------------------------------
(* Bounds of the model *)

MaxFiles == 2
MaxCalls == 2
MaxChanges == 1

---------------------------------------------------------------------------
(* Values *)

\* None: an absent path, an omitted argument, the result of a method that
\* returns nothing.
Absent == << <<"None">> >>
\* An environment variable that is not set.
Unset == <<"unset">>
NoCall == [op |-> "none"]
NoRet == [kind |-> "none"]
Raised == [status |-> "raised", exc |-> "NotADirectoryError"]

Inst == {1, 2}
Threads == {"t1", "t2"}

\* The class each instance belongs to: instance 1 is of the first source
\* file's class, instance 2 of the second's.
VariantOf(i) == IF i = 1 THEN "osdag-latex-env" ELSE "osdag_latex_env"

Systems == {"windows", "linux"}

\* sys.prefix as a path.
Prefix == << <<"env">> >>

---------------------------------------------------------------------------
(* Text *)

\* str.lower() on one chunk.
LowerChunk(c) ==
    CASE c = "PdfLaTeX" -> "pdflatex"
      [] c = "PDFLATEX" -> "pdflatex"
      [] c = "BibTeX" -> "bibtex"
      [] c = "BIBTEX" -> "bibtex"
      [] c = "EXE" -> "exe"
      [] c = "Old" -> "old"
      [] OTHER -> c

\* str.lower()
Lower(name) == [k \in DOMAIN name |-> LowerChunk(name[k])]

\* The position of the last dot of a name, 0 when it has none (str.rfind).
LastDot(name) ==
    LET dots == {k \in DOMAIN name : name[k] = "."}
    IN  IF dots = {} THEN 0 ELSE CHOOSE k \in dots : \A j \in dots : j <= k

\* PurePath.stem: the name without its last suffix; a leading or a trailing
\* dot starts no suffix.
Stem(name) ==
    LET i == LastDot(name)
    IN  IF 1 < i /\ i < Len(name) THEN SubSeq(name, 1, i - 1) ELSE name

\* The path-component separator and os.pathsep of the platform.
Sep(sys) == IF sys = "windows" THEN "\\" ELSE "/"
PathSep(sys) == IF sys = "windows" THEN ";" ELSE ":"

RECURSIVE StrOf(_, _)
\* str(path): every component preceded by the separator.
StrOf(path, sys) ==
    IF path = <<>> THEN <<>>
    ELSE StrOf(SubSeq(path, 1, Len(path) - 1), sys)
         \o <<Sep(sys)>> \o path[Len(path)]

\* str.replace(old, new) on the pieces of a text.
Replace(s, old, new) == [k \in DOMAIN s |-> IF s[k] = old THEN new ELSE s[k]]

RECURSIVE Join(_, _)
\* sep.join(list)
Join(sep, list) ==
    IF list = <<>> THEN <<>>
    ELSE IF Len(list) = 1 THEN list[1]
    ELSE list[1] \o <<sep>> \o Join(sep, Tail(list))

IsSuffix(s, t) ==
    /\ Len(s) <= Len(t)
    /\ SubSeq(t, Len(t) - Len(s) + 1, Len(t)) = s

IsPrefix(s, t) ==
    /\ Len(s) <= Len(t)
    /\ SubSeq(t, 1, Len(s)) = s

---------------------------------------------------------------------------
(* The file system *)

Exists(f, p) == \E e \in f : e.path = p
IsFile(f, p) == \E e \in f : e.path = p /\ e.kind = "file"
IsDir(f, p) == \E e \in f : e.path = p /\ e.kind = "dir"

\* Path.iterdir(): the entries directly inside d.
Iterdir(f, d) ==
    {e.path : e \in {x \in f : /\ Len(x.path) = Len(d) + 1
                               /\ SubSeq(x.path, 1, Len(d)) = d}}

---------------------------------------------------------------------------
(* Construction *)

DetectBinDirPlain(sys) ==
    IF sys = "windows"
    THEN Prefix \o << <<"Library">>, <<"bin">> >>
    ELSE Prefix \o << <<"bin">> >>

DetectBinDirNested(sys) ==
    IF sys = "windows"
    THEN Prefix \o << <<"Library">>, <<"share">>, <<"osdag_latex_env">>, <<"bin">> >>
    ELSE Prefix \o << <<"share">>, <<"osdag_latex_env">>, <<"bin">> >>

\* _detect_bin_dir with the return of the Windows branch left out.
DetectBinDirNoReturn(variant, sys) ==
    IF sys = "windows" THEN Absent
    ELSE IF variant = "osdag-latex-env"
         THEN DetectBinDirPlain(sys)
         ELSE DetectBinDirNested(sys)

\* _detect_bin_dir of either class.
DetectBinDir(variant, sys) ==
    IF variant = "osdag-latex-env"
    THEN DetectBinDirPlain(sys)
    ELSE DetectBinDirNested(sys)

\* _detect_tex_root of either class.
DetectTexRoot(variant, sys) ==
    LET product == IF variant = "osdag-latex-env"
                   THEN <<"osdag-latex-env">> ELSE <<"osdag_latex_env">>
    IN  IF sys = "windows"
        THEN Prefix \o << <<"Library">>, <<"share">>, product >>
        ELSE Prefix \o << <<"share">>, product >>

\* The key _discover_binaries files a path under.
KeyOf(p) == Lower(Stem(p[Len(p)]))

\* _discover_binaries without its is_file() test.
DiscoverBinariesAnyEntry(f, bin_dir) ==
    IF ~Exists(f, bin_dir) THEN {<<>>}
    ELSE LET files == Iterdir(f, bin_dir)
             keys == {KeyOf(p) : p \in files}
         IN  {b \in [keys -> files] : \A k \in keys : KeyOf(b[k]) = k}

\* _discover_binaries: the registries the scan of bin_dir can build.  The
\* order of iterdir() is the operating system's, so of two files with the
\* same key either may be the one that stays.
DiscoverBinaries(f, bin_dir) ==
    IF ~Exists(f, bin_dir) THEN {<<>>}
    ELSE LET files == {p \in Iterdir(f, bin_dir) : IsFile(f, p)}
             keys == {KeyOf(p) : p \in files}
         IN  {b \in [keys -> files] : \A k \in keys : KeyOf(b[k]) = k}

\* __init__ whose scan does not test bin_dir.exists() first.
ConstructScanUnchecked(variant, sys, f) ==
    LET bd == DetectBinDir(variant, sys)
        tr == DetectTexRoot(variant, sys)
    IN  IF ~IsDir(f, bd) THEN {Raised}
        ELSE {[status |-> "constructed", prefix |-> Prefix, system |-> sys,
               bin_dir |-> bd, tex_root |-> tr, bin |-> b] :
                  b \in DiscoverBinaries(f, bd)}

\* __init__: the objects construction can yield over file system f.
\* iterdir() of a bin_dir that is no directory raises.
Construct(variant, sys, f) ==
    LET bd == DetectBinDir(variant, sys)
        tr == DetectTexRoot(variant, sys)
    IN  IF Exists(f, bd) /\ ~IsDir(f, bd) THEN {Raised}
        ELSE {[status |-> "constructed", prefix |-> Prefix, system |-> sys,
               bin_dir |-> bd, tex_root |-> tr, bin |-> b] :
                  b \in DiscoverBinaries(f, bd)}

Constructed(i) == inst[i].status = "constructed"

---------------------------------------------------------------------------
(* The initial states: a process that has constructed its instances *)

\* The names an installer may leave in an executable directory.
Candidates ==
    { [name |-> <<"pdflatex">>, kind |-> "file"],
      [name |-> <<"PdfLaTeX", ".", "exe">>, kind |-> "file"],
      [name |-> <<"BibTeX", ".", "Old", ".", "EXE">>, kind |-> "file"],
      [name |-> <<"bibtex">>, kind |-> "dir"],
      [name |-> <<"sub">>, kind |-> "dir"] }

\* What lies inside a candidate that is a directory.
Nested(d, c) ==
    IF c.name = <<"sub">>
    THEN {[path |-> d \o <<c.name, <<"latexmk">> >>, kind |-> "file"]}
    ELSE {}

\* The directories above p.
Parents(p) == {SubSeq(p, 1, n) : n \in 1..(Len(p) - 1)}

\* A directory d with the content cs, and the directories above it.
Tree(d, cs) ==
    {[path |-> q, kind |-> "dir"] : q \in Parents(d) \cup {d}}
    \cup {[path |-> d \o <<c.name>>, kind |-> c.kind] : c \in cs}
    \cup UNION {Nested(d, c) : c \in cs}

\* Always there: a tool of the same name outside every executable directory.
Elsewhere ==
    Tree(Prefix \o << <<"other">> >>, {[name |-> <<"pdflatex">>, kind |-> "file"]})

Layouts == {"none", "plain", "nested", "both", "binfile"}

\* The file system of an installation of the plain layout (the first
\* class's), of the nested one (the second's), of both or of none; in
\* "binfile" something that is no directory has the executable directory's
\* name.
FileSystem(layout, sys, cs) ==
    LET plain == Tree(DetectBinDirPlain(sys), cs)
                 \cup Tree(DetectTexRoot("osdag-latex-env", sys), {})
        nested == Tree(DetectBinDirNested(sys), cs)
        asfile(d) ==
            {[path |-> q, kind |-> "dir"] : q \in Parents(d)}
            \cup {[path |-> d, kind |-> "file"]}
    IN  Elsewhere \cup
        CASE layout = "none" -> {}
          [] layout = "plain" -> plain
          [] layout = "nested" -> nested
          [] layout = "both" -> plain \cup nested
          [] layout = "binfile" ->
                asfile(DetectBinDirPlain(sys)) \cup asfile(DetectBinDirNested(sys))

InitialEnvs ==
    { [TEXINPUTS |-> Unset, TEXMFHOME |-> Unset],
      [TEXINPUTS |-> <<".", ":", "/", "usr", "/", "texmf">>,
       TEXMFHOME |-> <<"/", "home", "/", "texmf">>] }

Init ==
    /\ system \in Systems
    /\ \E layout \in Layouts :
       \E cs \in SUBSET Candidates :
          /\ Cardinality(cs) <= MaxFiles
          /\ layout \in {"none", "binfile"} => cs = {}
          /\ fs = FileSystem(layout, system, cs)
    /\ fs0 = fs
    /\ inst \in [Inst -> UNION {Construct(VariantOf(i), system, fs) : i \in Inst}]
    /\ \A i \in Inst : inst[i] \in Construct(VariantOf(i), system, fs)
    /\ inst0 = inst
    /\ env \in InitialEnvs
    /\ env0 = env
    /\ ncalls = 0
    /\ pc = "idle"
    /\ call = NoCall
    /\ ret = NoRet
    /\ attempts = <<>>
    /\ children = <<>>
    /\ changes = 0
    /\ tpc = [t \in Threads |-> "idle"]
    /\ tself = [t \in Threads |-> 0]
    /\ tread = [t \in Threads |-> <<>>]

---------------------------------------------------------------------------
(* The methods *)

\* The names callers ask for.
QueryNames ==
    { <<"PDFLATEX">>, <<"PdfLaTeX", ".", "exe">>, <<"bibtex">>,
      <<"BibTeX", ".", "Old">>, <<"latexmk">> }

Return(v) == [kind |-> "return", value |-> v]
Raise(exc, msg) == [kind |-> "raise", exc |-> exc, msg |-> msg]

\* The available property.
available(self) == DOMAIN self.bin # {}

\* has(name)
has(self, name) == Lower(name) \in DOMAIN self.bin

\* get(name) whose error names the lowered key instead of the name passed.
getNamesKey(self, name) ==
    IF Lower(name) \in DOMAIN self.bin
    THEN Return(self.bin[Lower(name)])
    ELSE Raise("RuntimeError", <<Lower(name), " not found in ", "OsdagLatexEnv">>)

\* get(name): the path, or the RuntimeError naming what was asked for.
get(self, name) ==
    IF Lower(name) \in DOMAIN self.bin
    THEN Return(self.bin[Lower(name)])
    ELSE Raise("RuntimeError", <<name, " not found in ", "OsdagLatexEnv">>)

\* require() with its test the wrong way round.
requireInverted(self) ==
    IF available(self)
    THEN Raise("RuntimeError", <<"No LaTeX binaries found in the current environment. Please install osdag-latex-env.">>)
    ELSE Return(Absent)

\* require()
require(self) ==
    IF ~available(self)
    THEN Raise("RuntimeError", <<"No LaTeX binaries found in the current environment. Please install osdag-latex-env.">>)
    ELSE Return(Absent)

\* A call that spawns nothing ends at once with result r.
Finish(c, r) ==
    /\ pc = "idle"
    /\ call' = c
    /\ ret' = r
    /\ attempts' = <<>>
    /\ UNCHANGED <<system, fs, fs0, inst, inst0, env, env0, ncalls, pc,
                   children, changes, tpc, tself, tread>>

\* has(name) that scans the directory again and keeps what it finds.
HasRescan(i, name) ==
    /\ Constructed(i)
    /\ pc = "idle"
    /\ \E b \in DiscoverBinaries(fs, inst[i].bin_dir) :
          /\ inst' = [inst EXCEPT ![i].bin = b]
          /\ ret' = Return(Lower(name) \in DOMAIN b)
    /\ call' = [op |-> "has", self |-> i, name |-> name]
    /\ attempts' = <<>>
    /\ UNCHANGED <<system, fs, fs0, inst0, env, env0, ncalls, pc, children,
                   changes, tpc, tself, tread>>

Has(i, name) ==
    /\ Constructed(i)
    /\ Finish([op |-> "has", self |-> i, name |-> name],
              Return(has(inst[i], name)))

Get(i, name) ==
    /\ Constructed(i)
    /\ Finish([op |-> "get", self |-> i, name |-> name], get(inst[i], name))

GetPdflatex(i) ==
    /\ Constructed(i)
    /\ Finish([op |-> "get_pdflatex", self |-> i], get(inst[i], <<"pdflatex">>))

GetBibtex(i) ==
    /\ Constructed(i)
    /\ VariantOf(i) = "osdag-latex-env"
    /\ Finish([op |-> "get_bibtex", self |-> i], get(inst[i], <<"bibtex">>))

Require(i) ==
    /\ Constructed(i)
    /\ VariantOf(i) = "osdag-latex-env"
    /\ Finish([op |-> "require", self |-> i], require(inst[i]))

---------------------------------------------------------------------------
(* Spawning: run and pdflatex *)

\* The argument lists callers pass; Absent is the omitted argument (None).
ArgLists ==
    { Absent, <<>>, << <<"-interaction=nonstopmode">> >>,
      << <<"-halt-on-error">>, <<"-interaction=nonstopmode">> >> }

TexFiles == { <<"doc.tex">> }

RunNames == { <<"PDFLATEX">>, <<"BibTeX", ".", "Old">>, <<"latexmk">> }

ExitCodes == {0, 1}

\* subprocess.run(argv) with the executable at path exe: the child it
\* starts inherits os.environ; an executable that is no longer a file on
\* disk makes the primitive raise, and no child exists.
Spawn(c, exe, argv) ==
    /\ call' = c
    /\ attempts' = <<argv>>
    /\ IF IsFile(fs, exe)
       THEN /\ children' = Append(children, [argv |-> argv, env |-> env])
            /\ pc' = "waiting"
            /\ ret' = NoRet
       ELSE /\ children' = children
            /\ pc' = "idle"
            /\ ret' = Raise("FileNotFoundError", <<argv[1]>>)

\* The body of run(name, args) for the call recorded as c.
RunBody(c, self, name, args) ==
    LET a == IF args = Absent THEN <<>> ELSE args
        exe == get(self, name)
    IN  /\ pc = "idle"
        /\ IF exe.kind = "raise"
           THEN /\ call' = c
                /\ ret' = exe
                /\ attempts' = <<>>
                /\ UNCHANGED <<pc, children>>
           ELSE Spawn(c, exe.value, <<StrOf(exe.value, self.system)>> \o a)
        /\ UNCHANGED <<system, fs, fs0, inst, inst0, env, env0, ncalls,
                       changes, tpc, tself, tread>>

Run(i, name, args) ==
    /\ Constructed(i)
    /\ VariantOf(i) = "osdag-latex-env"
    /\ RunBody([op |-> "run", self |-> i, name |-> name, args |-> args],
               inst[i], name, args)

\* pdflatex's argument list with the file put first.
PdflatexArgsFileFirst(tex_file, extra_args) ==
    <<tex_file>>
    \o (IF extra_args # Absent /\ extra_args # <<>> THEN extra_args ELSE <<>>)

\* The argument list pdflatex(tex_file, extra_args) hands to run.
PdflatexArgs(tex_file, extra_args) ==
    (IF extra_args # Absent /\ extra_args # <<>> THEN extra_args ELSE <<>>)
    \o <<tex_file>>

Pdflatex(i, tex_file, extra_args) ==
    /\ Constructed(i)
    /\ VariantOf(i) = "osdag-latex-env"
    /\ RunBody([op |-> "pdflatex", self |-> i, tex_file |-> tex_file,
                extra_args |-> extra_args],
               inst[i], <<"pdflatex">>, PdflatexArgs(tex_file, extra_args))

\* A run that starts the tool again when it failed.
ChildExitRetry(rc) ==
    /\ pc = "waiting"
    /\ children # <<>>
    /\ IF rc # 0 /\ Len(attempts) < 2
       THEN /\ attempts' = Append(attempts, Head(children).argv)
            /\ UNCHANGED <<pc, ret, children>>
       ELSE /\ pc' = "idle"
            /\ ret' = Return([args |-> Head(children).argv, returncode |-> rc])
            /\ children' = Tail(children)
            /\ attempts' = attempts
    /\ UNCHANGED <<system, fs, fs0, inst, inst0, env, env0, ncalls, call,
                   changes, tpc, tself, tread>>

\* The child ends with exit code rc and subprocess.run returns.
ChildExit(rc) ==
    /\ pc = "waiting"
    /\ children # <<>>
    /\ pc' = "idle"
    /\ ret' = Return([args |-> Head(children).argv, returncode |-> rc])
    /\ children' = Tail(children)
    /\ UNCHANGED <<system, fs, fs0, inst, inst0, env, env0, ncalls, call,
                   attempts, changes, tpc, tself, tread>>

---------------------------------------------------------------------------
(* configure_tex *)

\* str(self.tex_root / "texmf-dist")
TexmfDist(self) == StrOf(self.tex_root \o << <<"texmf-dist">> >>, self.system)

\* sty_pkgs and the three pkg_resources
PkgResources(self) ==
    LET sty_pkgs ==
            Replace(StrOf(self.tex_root \o << <<"texmf-dist">>, <<"tex">>, <<"latex">> >>,
                          self.system), "\\", "/")
    IN  << sty_pkgs \o <<"/", "amsmath">>,
           sty_pkgs \o <<"/", "graphics">>,
           sty_pkgs \o <<"/", "needspace">> >>

\* os.environ["TEXMFHOME"] = texmf_dist
SetTexmfHome(e, self) == [e EXCEPT !.TEXMFHOME = TexmfDist(self)]

\* os.environ.get("TEXINPUTS", "")
GetTexinputs(e) == IF e.TEXINPUTS = Unset THEN <<>> ELSE e.TEXINPUTS

\* Line 40 assigning instead of appending.
OverwriteTexinputs(e, self, read) ==
    [e EXCEPT !.TEXINPUTS = TexmfDist(self)]

\* os.environ["TEXINPUTS"] = texmf_dist + os.pathsep + <what was read>
PrependTexmfDist(e, self, read) ==
    [e EXCEPT !.TEXINPUTS = TexmfDist(self) \o <<PathSep(self.system)>> \o read]

\* Line 48 assigning instead of appending.
OverwriteWithPkgResources(e, self, read) ==
    [e EXCEPT !.TEXINPUTS = Join(";", PkgResources(self))]

\* os.environ["TEXINPUTS"] = ";".join(pkg_resources) + ";" + <what was read>
PrependPkgResources(e, self, read) ==
    [e EXCEPT !.TEXINPUTS = Join(";", PkgResources(self)) \o <<";">> \o read]

\* configure_tex() run from its first line to its last.
configure_tex(e, self) ==
    LET e1 == SetTexmfHome(e, self)
        e2 == PrependTexmfDist(e1, self, GetTexinputs(e1))
    IN  PrependPkgResources(e2, self, e2.TEXINPUTS)

ConfigureTex(i) ==
    /\ pc = "idle"
    /\ Constructed(i)
    /\ VariantOf(i) = "osdag_latex_env"
    /\ ncalls < MaxCalls
    /\ ncalls' = ncalls + 1
    /\ env' = configure_tex(env, inst[i])
    /\ call' = [op |-> "configure_tex", self |-> i]
    /\ ret' = Return(Absent)
    /\ attempts' = <<>>
    /\ UNCHANGED <<system, fs, fs0, inst, inst0, env0, pc, children, changes,
                   tpc, tself, tread>>

---------------------------------------------------------------------------
(* The installation changes on disk after construction *)

\* The paths the registries hold.
Registered ==
    UNION {{inst[i].bin[k] : k \in DOMAIN inst[i].bin} :
              i \in {j \in Inst : Constructed(j)}}

\* A registered file is removed.
Unlink(p) ==
    /\ changes < MaxChanges
    /\ IsFile(fs, p)
    /\ fs' = fs \ {[path |-> p, kind |-> "file"]}
    /\ changes' = changes + 1
    /\ UNCHANGED <<system, fs0, inst, inst0, env, env0, ncalls, pc, call,
                   ret, attempts, children, tpc, tself, tread>>

\* A file appears in an executable directory.
Create(p) ==
    /\ changes < MaxChanges
    /\ ~Exists(fs, p)
    /\ IsDir(fs, SubSeq(p, 1, Len(p) - 1))
    /\ fs' = fs \cup {[path |-> p, kind |-> "file"]}
    /\ changes' = changes + 1
    /\ UNCHANGED <<system, fs0, inst, inst0, env, env0, ncalls, pc, call,
                   ret, attempts, children, tpc, tself, tread>>

\* The files that may appear.
NewFiles == {inst[i].bin_dir \o << <<"latexmk", ".", "exe">> >> : i \in {j \in Inst : Constructed(j)}}

---------------------------------------------------------------------------
(* configure_tex called from two threads: one step per access of os.environ *)

\* Lines 37-39: the call begins and writes TEXMFHOME.
Line39(t, i) ==
    /\ tpc[t] = "idle"
    /\ Constructed(i)
    /\ VariantOf(i) = "osdag_latex_env"
    /\ tself' = [tself EXCEPT ![t] = i]
    /\ ncalls' = ncalls + 1
    /\ env' = SetTexmfHome(env, inst[i])
    /\ tpc' = [tpc EXCEPT ![t] = "l40get"]
    /\ UNCHANGED <<system, fs, fs0, inst, inst0, env0, pc, call, ret,
                   attempts, children, changes, tread>>

\* Line 40, right-hand side: TEXINPUTS is read.
Line40Get(t) ==
    /\ tpc[t] = "l40get"
    /\ tread' = [tread EXCEPT ![t] = GetTexinputs(env)]
    /\ tpc' = [tpc EXCEPT ![t] = "l40set"]
    /\ UNCHANGED <<system, fs, fs0, inst, inst0, env, env0, ncalls, pc, call,
                   ret, attempts, children, changes, tself>>

\* Line 40, assignment: TEXINPUTS is written.
Line40Set(t) ==
    /\ tpc[t] = "l40set"
    /\ env' = PrependTexmfDist(env, inst[tself[t]], tread[t])
    /\ tpc' = [tpc EXCEPT ![t] = "l48get"]
    /\ UNCHANGED <<system, fs, fs0, inst, inst0, env0, ncalls, pc, call,
                   ret, attempts, children, changes, tself, tread>>

\* Line 48, right-hand side: TEXINPUTS is read again.
Line48Get(t) ==
    /\ tpc[t] = "l48get"
    /\ tread' = [tread EXCEPT ![t] = env.TEXINPUTS]
    /\ tpc' = [tpc EXCEPT ![t] = "l48set"]
    /\ UNCHANGED <<system, fs, fs0, inst, inst0, env, env0, ncalls, pc, call,
                   ret, attempts, children, changes, tself>>

\* Line 48, assignment: TEXINPUTS is written and the call returns.
Line48Set(t) ==
    /\ tpc[t] = "l48set"
    /\ env' = PrependPkgResources(env, inst[tself[t]], tread[t])
    /\ tpc' = [tpc EXCEPT ![t] = "done"]
    /\ UNCHANGED <<system, fs, fs0, inst, inst0, env0, ncalls, pc, call,
                   ret, attempts, children, changes, tself, tread>>

---------------------------------------------------------------------------
(* Specifications *)

Lookups ==
    \/ \E i \in Inst, n \in QueryNames : Has(i, n)
    \/ \E i \in Inst, n \in QueryNames : Get(i, n)
    \/ \E i \in Inst : GetPdflatex(i)
    \/ \E i \in Inst : GetBibtex(i)
    \/ \E i \in Inst : Require(i)

Spawns ==
    \/ \E i \in Inst, n \in RunNames, a \in ArgLists : Run(i, n, a)
    \/ \E i \in Inst, t \in TexFiles, a \in ArgLists : Pdflatex(i, t, a)
    \/ \E rc \in ExitCodes : ChildExit(rc)

Configures == \E i \in Inst : ConfigureTex(i)

DiskChanges ==
    \/ \E p \in Registered : Unlink(p)
    \/ \E p \in NewFiles : Create(p)

\* Both layouts are installed, each executable directory as full as the
\* model lets it be, and the environment starts unset.
InitBoth ==
    /\ Init
    /\ \A i \in Inst :
          /\ Constructed(i)
          /\ Cardinality(Iterdir(fs, inst[i].bin_dir)) = MaxFiles
    /\ env.TEXINPUTS = Unset

\* Every method of both classes, one call after the other, and the disk
\* changing in between.
Next == Lookups \/ Spawns \/ Configures \/ DiskChanges

Spec == InitBoth /\ [][Next]_vars

\* The lookups over every installation, the disk changing in between.
NextLookup == Lookups \/ DiskChanges

SpecLookup == Init /\ [][NextLookup]_vars

\* The spawning methods over every installation, the disk changing in between.
NextRun == Spawns \/ DiskChanges

SpecRun == Init /\ [][NextRun]_vars

\* configure_tex and the children spawned afterwards.
NextEnv == Configures \/ Spawns

SpecEnv == Init /\ [][NextEnv]_vars

\* Two threads inside configure_tex.
NextConc ==
    \/ \E t \in Threads, i \in Inst : Line39(t, i)
    \/ \E t \in Threads : Line40Get(t)
    \/ \E t \in Threads : Line40Set(t)
    \/ \E t \in Threads : Line48Get(t)
    \/ \E t \in Threads : Line48Set(t)

SpecConc == Init /\ [][NextConc]_vars

---------------------------------------------------------------------------
(* Properties *)

\* The instance the recorded call was made on.
Self == inst[call.self]

\* Names that are equal when letter case is ignored.
SameIgnoringCase(a, b) ==
    /\ Len(a) = Len(b)
    /\ \A k \in DOMAIN a : LowerChunk(a[k]) = LowerChunk(b[k])

\* The regular files that lay directly inside directory d when the instances
\* were constructed.
FilesDirectlyIn(d) ==
    {e \in fs0 : /\ e.kind = "file"
                 /\ Len(e.path) = Len(d) + 1
                 /\ SubSeq(e.path, 1, Len(d)) = d}

\* C1: has(name) returns true exactly when name, letter case ignored, is
\* the extension-stripped name of a regular file that lay directly inside
\* the instance's executable directory at construction; it returns false
\* for the name of a sub-directory, of a file inside a sub-directory and of
\* a file elsewhere.
C1_HasExactlyTheScannedFiles ==
    call.op = "has" =>
        /\ ret.kind = "return"
        /\ ret.value <=>
              \E e \in FilesDirectlyIn(Self.bin_dir) :
                  SameIgnoringCase(Stem(e.path[Len(e.path)]), call.name)

\* A file named PdfLaTeX.exe, and no file named pdflatex, was found by
\* has("PDFLATEX").
C1_Witness ==
    /\ call.op = "has"
    /\ call.name = <<"PDFLATEX">>
    /\ ret.value = TRUE
    /\ FilesDirectlyIn(Self.bin_dir) # {}
    /\ \A e \in FilesDirectlyIn(Self.bin_dir) :
          e.path[Len(e.path)] = <<"PdfLaTeX", ".", "exe">>

\* C2: get(name) returns exactly the path the registry holds under the
\* lowered name, an absolute path, and raises nothing; when the registry
\* has no such key it raises the not-found error, whose message starts with
\* the name as the caller passed it, and returns no path.
C2_GetReturnsRegistryPathOrNamesTheTool ==
    call.op = "get" =>
        IF Lower(call.name) \in DOMAIN Self.bin
        THEN /\ ret.kind = "return"
             /\ ret.value = Self.bin[Lower(call.name)]
             /\ IsPrefix(Prefix, ret.value)
        ELSE /\ ret.kind = "raise"
             /\ ret.exc = "RuntimeError"
             /\ ret.msg[1] = call.name

\* get("PDFLATEX") failed on an instance without that tool: the name in
\* the message is not the lowered key.
C2_Witness ==
    /\ call.op = "get"
    /\ call.name = <<"PDFLATEX">>
    /\ ret.kind = "raise"
    /\ ret.msg[1] # Lower(call.name)
    /\ DOMAIN Self.bin # {}

\* C3: an instance whose executable directory did not exist at construction
\* was constructed all the same, with an empty registry and available
\* false; the not-found error appears only when a tool is asked for.
C3_MissingDirectoryDegrades ==
    \A i \in Inst :
        ~Exists(fs0, DetectBinDir(VariantOf(i), system)) =>
            /\ inst[i].status = "constructed"
            /\ DOMAIN inst[i].bin = {}
            /\ ~available(inst[i])
            /\ (call.op \in {"get", "get_pdflatex", "get_bibtex"} /\ call.self = i) =>
                  (ret.kind = "raise" /\ ret.exc = "RuntimeError")
            /\ (call.op = "has" /\ call.self = i) => ret = Return(FALSE)

\* The first class's instance was constructed without its executable
\* directory, and get then raised.
C3_Witness ==
    /\ ~Exists(fs0, DetectBinDir(VariantOf(1), system))
    /\ inst[1].status = "constructed"
    /\ call.op = "get"
    /\ call.self = 1
    /\ ret.kind = "raise"

\* C4: require() raises the no-toolchain error exactly when available is
\* false, returns nothing otherwise, and leaves the instance as constructed.
C4_RequireRaisesIffUnavailable ==
    call.op = "require" =>
        /\ (ret.kind = "raise") <=> ~available(Self)
        /\ (ret.kind = "return") <=> available(Self)
        /\ ret.kind = "raise" => ret.exc = "RuntimeError"
        /\ ret.kind = "return" => ret.value = Absent
        /\ inst = inst0

\* require() raised on an instance with an empty registry.
C4_Witness ==
    /\ call.op = "require"
    /\ ret.kind = "raise"
    /\ DOMAIN Self.bin = {}

\* C5: a pdflatex(tex_file, extra_args) call that found the tool hands to
\* the process primitive, once, the registry's pdflatex path followed by
\* extra_args in their order and then tex_file; with extra_args omitted or
\* empty the arguments are tex_file alone.
C5_PdflatexArgumentOrder ==
    call.op = "pdflatex" =>
        LET extra == IF call.extra_args \in {Absent, <<>>}
                     THEN <<>> ELSE call.extra_args
        IN  IF <<"pdflatex">> \in DOMAIN Self.bin
            THEN /\ Len(attempts) = 1
                 /\ Head(attempts)[1] = StrOf(Self.bin[<<"pdflatex">>], Self.system)
                 /\ Tail(Head(attempts)) = extra \o <<call.tex_file>>
                 /\ extra = <<>> => Tail(Head(attempts)) = <<call.tex_file>>
            ELSE attempts = <<>>

\* pdflatex runs with two extra arguments.
C5_Witness ==
    /\ call.op = "pdflatex"
    /\ pc = "waiting"
    /\ call.extra_args # Absent
    /\ Len(call.extra_args) = 2
    /\ Len(children) = 1
    /\ Len(Head(children).argv) = 4

\* C6: whatever was called, and whatever happened to the directory on
\* disk, every instance (registry, executable directory, data root, prefix,
\* OS identifier) is as construction left it.
C6_InstancesNeverChange == inst = inst0

\* After a change on disk that a new scan would see, and a configure_tex
\* call, has() answered from the registry of construction time.
C6_Witness ==
    /\ call.op = "has"
    /\ changes > 0
    /\ ncalls > 0
    /\ Self.bin \notin DiscoverBinaries(fs, Self.bin_dir)
    /\ Self.bin \in DiscoverBinaries(fs0, Self.bin_dir)

RECURSIVE Repeat(_, _)
Repeat(s, n) == IF n = 0 THEN <<>> ELSE s \o Repeat(s, n - 1)

\* What one configure_tex call of an instance puts in front of TEXINPUTS:
\* the three style-package directories, each followed by a semicolon, then
\* the data root's texmf-dist and the platform's path-list separator.
Contribution(self) ==
    LET pkgs == PkgResources(self)
    IN  pkgs[1] \o <<";">> \o pkgs[2] \o <<";">> \o pkgs[3] \o <<";">>
        \o TexmfDist(self) \o <<PathSep(self.system)>>

\* TEXINPUTS at process start, the empty text when it was unset.
OriginalTexinputs == IF env0.TEXINPUTS = Unset THEN <<>> ELSE env0.TEXINPUTS

\* C8: after n configure_tex calls made one after the other, TEXINPUTS is
\* the value it had before the first call (empty when unset) with n
\* contributions in front of it, TEXMFHOME is the data root's texmf-dist
\* whatever it was, and a child process sees the environment as it is when
\* it is spawned.
C8_TexinputsIsAppendedTo ==
    /\ ncalls = 0 => env = env0
    /\ ncalls > 0 =>
          /\ inst[2].status = "constructed"
          /\ env.TEXINPUTS = Repeat(Contribution(inst[2]), ncalls) \o OriginalTexinputs
          /\ IsSuffix(OriginalTexinputs, env.TEXINPUTS)
          /\ env.TEXMFHOME = StrOf(inst[2].tex_root \o << <<"texmf-dist">> >>, system)
    /\ \A k \in DOMAIN children : children[k].env = env

\* Two calls were made over a TEXINPUTS and a TEXMFHOME that were set, and
\* a child spawned afterwards is running.
C8_Witness ==
    /\ ncalls = 2
    /\ env0.TEXINPUTS # Unset
    /\ env0.TEXMFHOME # env.TEXMFHOME
    /\ Len(children) = 1
    /\ Head(children).env.TEXINPUTS = env.TEXINPUTS
    /\ Len(env.TEXINPUTS) > Len(env0.TEXINPUTS)

\* Every thread has returned from configure_tex.
AllDone == \A t \in Threads : tpc[t] = "done"

\* TEXINPUTS after the two calls made one after the other, in either order.
SequentialOutcomes ==
    {configure_tex(configure_tex(env0, inst[tself[o[1]]]), inst[tself[o[2]]]).TEXINPUTS :
        o \in {x \in Threads \X Threads : x[1] # x[2]}}

\* C9: however the reads and writes of two configure_tex calls interleave,
\* the registries and the other attributes of the instances stay as
\* constructed; when both calls have returned, TEXINPUTS still ends with its
\* original value and is never longer than what the two calls give one after
\* the other: what an interleaving changes is that contributions are lost
\* or change places.
C9_InterleavingKeepsRegistries ==
    /\ inst = inst0
    /\ AllDone =>
          /\ IsSuffix(OriginalTexinputs, env.TEXINPUTS)
          /\ \A o \in SequentialOutcomes : Len(env.TEXINPUTS) <= Len(o)

\* Both calls have returned and TEXINPUTS is a value that no sequential
\* order of the two calls produces: the texmf-dist entry of one call is
\* lost.
C9_Witness ==
    /\ AllDone
    /\ env.TEXINPUTS \notin SequentialOutcomes
    /\ \A o \in SequentialOutcomes : Len(env.TEXINPUTS) < Len(o)

\* What run(name, args) hands to the process primitive.
RunArgv ==
    <<StrOf(Self.bin[Lower(call.name)], Self.system)>>
    \o (IF call.args = Absent THEN <<>> ELSE call.args)

\* C10 as claimed: a run(name, args) whose name is in the registry has
\* spawned exactly one child with the registry's path and args, and is
\* waiting for it or has returned its result; one whose name is not in the
\* registry raised the not-found error and spawned nothing.
C10_RunSpawnsExactlyOne ==
    call.op = "run" =>
        IF Lower(call.name) \in DOMAIN Self.bin
        THEN /\ attempts = <<RunArgv>>
             /\ \/ /\ pc = "waiting"
                   /\ Len(children) = 1
                   /\ Head(children).argv = RunArgv
                \/ /\ pc = "idle"
                   /\ children = <<>>
                   /\ ret.kind = "return"
                   /\ ret.value.args = RunArgv
        ELSE /\ pc = "idle"
             /\ ret.kind = "raise"
             /\ ret.exc = "RuntimeError"
             /\ attempts = <<>>
             /\ children = <<>>

\* C10 as amended: a run(name, args) whose name is in the registry calls
\* the process primitive exactly once, with the registry's path and args;
\* it then waits for the one child, or has returned that child's result
\* whatever the exit code, or - the registered file being gone from disk -
\* has passed on the primitive's error with no child; one whose name is not
\* in the registry raised the not-found error and spawned nothing.
C10_RunAttemptsExactlyOnce ==
    call.op = "run" =>
        IF Lower(call.name) \in DOMAIN Self.bin
        THEN /\ attempts = <<RunArgv>>
             /\ \/ /\ pc = "waiting"
                   /\ Len(children) = 1
                   /\ Head(children).argv = RunArgv
                   /\ ret = NoRet
                \/ /\ pc = "idle"
                   /\ children = <<>>
                   /\ ret.kind = "return"
                   /\ ret.value.args = RunArgv
                   /\ ret.value.returncode \in ExitCodes
                \/ /\ pc = "idle"
                   /\ children = <<>>
                   /\ ret.kind = "raise"
                   /\ ret.exc = "FileNotFoundError"
                   /\ ~IsFile(fs, Self.bin[Lower(call.name)])
        ELSE /\ pc = "idle"
             /\ ret.kind = "raise"
             /\ ret.exc = "RuntimeError"
             /\ attempts = <<>>
             /\ children = <<>>

\* run returned the result of a child that failed, after one attempt.
C10_Witness ==
    /\ call.op = "run"
    /\ pc = "idle"
    /\ ret.kind = "return"
    /\ ret.value.returncode = 1
    /\ Len(attempts) = 1
    /\ call.args # Absent
    /\ Len(call.args) = 2

====
